---------------------------- MODULE Spec2Model ----------------------------
(***************************************************************************)
(* A model of obspy.seishub.client: the SeisHub request Client, its        *)
(* query encoder (_fetch) and the waveform, station and event mapper       *)
(* clients.                                                                *)
(*                                                                         *)
(* Python values are records [t, n, s, e]: t is the type tag, n the        *)
(* integer payload, s the string payload and e the elements of a tuple or  *)
(* list (scalars only).  Instants (UTCDateTime) are counted in             *)
(* milliseconds.  A dict is a function whose DOMAIN is its key set.        *)
(***************************************************************************)
EXTENDS Integers, Sequences, FiniteSets, TLC

VARIABLES
  clients,   \* the Client objects constructed so far, in construction order
  opener,    \* urllib2's process-wide opener (urllib2.install_opener)
  server,    \* what the remote SeisHub server holds (never changed by a call)
  call,      \* the last operation called: its name, client and arguments
  sent,      \* the HTTP requests the last call issued, in order
  outcome,   \* how the last call ended: "ok" or the exception raised
  result,    \* what the last call returned (when outcome = "ok")
  nodes      \* the children of station_control_header the last getPAZ bound
             \* to paz_node, sensitivity_node and seismometer_gain_node
             \* (positions in document order; 0: not bound)

vars == <<clients, opener, server, call, sent, outcome, result, nodes>>

(***************************************************************************)
(* Bounds of the model.                                                    *)
(***************************************************************************)
MaxClients == 2   \* Client objects constructed in one run
MaxSeqLen  == 2   \* elements of a tuple or list passed as a filter value
MaxKeys    == 2   \* keys of a keyword mapping handed to _fetch directly
MaxNodes   == 4   \* children of station_control_header in a station document
MaxParts   == 2   \* real or imaginary parts listed in one PAZ node
MaxArgs    == 3   \* positional arguments of one mapper call
MaxTraces  == 1   \* traces of a Stream the server sends

(***************************************************************************)
(* Python values.                                                          *)
(***************************************************************************)
PyNone     == [t |-> "none",  n |-> 0, s |-> "", e |-> <<>>]
PyBool(b)  == [t |-> "bool",  n |-> IF b THEN 1 ELSE 0, s |-> "", e |-> <<>>]
PyInt(i)   == [t |-> "int",   n |-> i, s |-> "", e |-> <<>>]
PyStr(x)   == [t |-> "str",   n |-> 0, s |-> x,  e |-> <<>>]
PyTuple(q) == [t |-> "tuple", n |-> 0, s |-> "", e |-> q]
PyList(q)  == [t |-> "list",  n |-> 0, s |-> "", e |-> q]
PyTime(ms) == [t |-> "time",  n |-> ms, s |-> "", e |-> <<>>]

\* Python's truth value: what "if not value" tests.
Truthy(v) ==
  CASE v.t = "none"  -> FALSE
    [] v.t = "bool"  -> v.n = 1
    [] v.t = "int"   -> v.n # 0
    [] v.t = "str"   -> v.s # ""
    [] v.t = "tuple" -> Len(v.e) > 0
    [] v.t = "list"  -> Len(v.e) > 0
    [] OTHER         -> TRUE

\* str(UTCDateTime): the instant written out, one text per instant.
FormatTime(ms) == "T" \o ToString(ms)

\* repr() of a scalar, as str() of a tuple or list writes its elements.
Repr(v) ==
  CASE v.t = "none" -> "None"
    [] v.t = "bool" -> IF v.n = 1 THEN "True" ELSE "False"
    [] v.t = "int"  -> ToString(v.n)
    [] v.t = "str"  -> "'" \o v.s \o "'"
    [] OTHER        -> FormatTime(v.n)

RECURSIVE JoinReprs(_)
JoinReprs(q) ==
  IF Len(q) = 0 THEN ""
  ELSE IF Len(q) = 1 THEN Repr(q[1])
  ELSE Repr(q[1]) \o ", " \o JoinReprs(Tail(q))

\* str(value), the conversion _fetch applies to every value it sends.
Str(v) ==
  CASE v.t = "str"   -> v.s
    [] v.t = "tuple" -> IF Len(v.e) = 1 THEN "(" \o Repr(v.e[1]) \o ",)"
                        ELSE "(" \o JoinReprs(v.e) \o ")"
    [] v.t = "list"  -> "[" \o JoinReprs(v.e) \o "]"
    [] OTHER         -> Repr(v)

\* ','.join(list of strings)
RECURSIVE JoinComma(_)
JoinComma(q) ==
  IF Len(q) = 0 THEN ""
  ELSE IF Len(q) = 1 THEN q[1].s
  ELSE q[1].s \o "," \o JoinComma(Tail(q))

(***************************************************************************)
(* Dicts.                                                                  *)
(***************************************************************************)
EmptyDict == [x \in {} |-> ""]

\* d[k] = v
Put(d, k, v) == [x \in DOMAIN d \cup {k} |-> IF x = k THEN v ELSE d[x]]

\* The orders in which a dict's keys can be iterated.
Perms(S) ==
  {f \in [1..Cardinality(S) -> S] : \A x \in S : \E i \in DOMAIN f : f[i] = x}

RECURSIVE SetToSeq(_)
SetToSeq(S) ==
  IF S = {} THEN <<>>
  ELSE LET x == CHOOSE y \in S : TRUE IN <<x>> \o SetToSeq(S \ {x})

(***************************************************************************)
(* Client._fetch: the query encoder.                                       *)
(***************************************************************************)
\* isinstance(value, tuple) and len(value) == 2
IsTuple2(value) == value.t = "tuple" /\ Len(value.e) = 2

\* isinstance(value, list) and len(value) == 2
IsList2(value) == value.t = "list" /\ Len(value.e) = 2

\* A seeded fault: the length test lost, every non-empty tuple is a range.
FetchStepAnyTuple(params, key, value) ==
  IF ~Truthy(value) THEN params
  ELSE IF value.t = "tuple" \/ IsList2(value)
       THEN Put(Put(params, "min_" \o key, Str(value.e[1])),
                "max_" \o key, Str(value.e[Len(value.e)]))
       ELSE Put(params, key, Str(value))

\* A seeded fault: a falsy value is sent instead of skipped.
FetchStepKeepFalsy(params, key, value) ==
  IF IsTuple2(value) \/ IsList2(value)
  THEN Put(Put(params, "min_" \o key, Str(value.e[1])),
           "max_" \o key, Str(value.e[2]))
  ELSE Put(params, key, Str(value))

\* One pass of the loop of _fetch over (key, value).
FetchStep(params, key, value) ==
  IF ~Truthy(value) THEN params
  ELSE IF IsTuple2(value)
       THEN Put(Put(params, "min_" \o key, Str(value.e[1])),
                "max_" \o key, Str(value.e[2]))
  ELSE IF IsList2(value)
       THEN Put(Put(params, "min_" \o key, Str(value.e[1])),
                "max_" \o key, Str(value.e[2]))
  ELSE Put(params, key, Str(value))

\* The loop of _fetch: params after kwargs.iteritems() yielded its items
\* in the given order.
RECURSIVE EncodeParams(_, _)
EncodeParams(kwargs, order) ==
  IF Len(order) = 0 THEN EmptyDict
  ELSE LET n == Len(order)
       IN FetchStep(EncodeParams(kwargs, SubSeq(order, 1, n - 1)),
                    order[n], kwargs[order[n]])

\* The parameter names the loop writes for one item.
Written(key, value) ==
  IF ~Truthy(value) THEN {}
  ELSE IF IsTuple2(value) \/ IsList2(value)
       THEN {"min_" \o key, "max_" \o key}
       ELSE {key}

\* Two items of kwargs write the same parameter name.
Collides(kwargs) ==
  \E a, b \in DOMAIN kwargs :
    a # b /\ Written(a, kwargs[a]) \cap Written(b, kwargs[b]) # {}

\* The iteration orders of kwargs that can differ in what they produce:
\* a dict's order is arbitrary, and it matters only when two items write
\* the same name.
Orders(kwargs) ==
  IF Collides(kwargs) THEN Perms(DOMAIN kwargs)
  ELSE {SetToSeq(DOMAIN kwargs)}

(***************************************************************************)
(* The transport: urllib2's installed opener and urlopen.                  *)
(***************************************************************************)
NoAuth == [user |-> "", password |-> ""]

\* urllib2 before any install_opener: no password manager.
NoOpener == [installed |-> FALSE, base_url |-> "", user |-> "", password |-> ""]

\* The credentials the installed opener's password manager holds for a
\* request to an address under base_url.
Credentials(op, base_url) ==
  IF op.installed /\ op.base_url = base_url
  THEN [user |-> op.user, password |-> op.password]
  ELSE NoAuth

\* The request urlopen(remoteaddr, timeout=self.timeout) issues for client c.
Request(c, url, params) ==
  [client   |-> c,
   base_url |-> clients[c].base_url,
   url      |-> url,
   params   |-> params,
   auth     |-> Credentials(opener, clients[c].base_url),
   timeout  |-> clients[c].timeout]

\* The request of self._fetch(url, **kwargs) on client c.
FetchRequest(c, url, kwargs, order) ==
  Request(c, url, EncodeParams(kwargs, order))

(***************************************************************************)
(* The remote server: the rows its listing mappers return, the station     *)
(* document behind every station resource, and the body of its waveform    *)
(* and preview mappers.  No call changes it.                               *)
(***************************************************************************)
TransportUp == server.up

\* objectify.fromstring(doc).getchildren() as [node.__dict__ ...]
ListRows == server.rows

\* res.station_control_header of the fetched station resource: its
\* children, in document order.
StationControlHeader == server.doc

(***************************************************************************)
(* Client.__init__ and Client.ping.                                        *)
(***************************************************************************)
DefaultBaseUrl == "http://teide.geophysik.uni-muenchen.de:8080"
DefaultUser == "admin"
DefaultPassword == "admin"
DefaultTimeout == 10

DefaultClient ==
  [base_url |-> DefaultBaseUrl, user |-> DefaultUser,
   password |-> DefaultPassword, timeout |-> DefaultTimeout]

\* The opener Client.__init__ builds and installs: a password manager that
\* holds (base_url, user, password) and nothing else.
OpenerOf(client) ==
  [installed |-> TRUE, base_url |-> client.base_url,
   user |-> client.user, password |-> client.password]

\* What a call leaves behind; the clients and the server are untouched.
Return(op, c, args, kwargs, requests, out, res, bound) ==
  /\ call' = [op |-> op, client |-> c, args |-> args, kwargs |-> kwargs]
  /\ sent' = requests
  /\ outcome' = out
  /\ result' = res
  /\ nodes' = bound
  /\ UNCHANGED <<clients, opener, server>>

NoNodes == [paz_node |-> 0, sensitivity_node |-> 0, seismometer_gain_node |-> 0]

\* Client(base_url, user, password, timeout)
NewClient(base_url, user, password, timeout) ==
  /\ Len(clients) < MaxClients
  /\ LET client == [base_url |-> base_url, user |-> user,
                    password |-> password, timeout |-> timeout]
     IN /\ clients' = Append(clients, client)
        /\ opener' = OpenerOf(client)
        /\ call' = [op |-> "Client", client |-> Len(clients) + 1,
                    args |-> <<>>, kwargs |-> EmptyDict]
  /\ sent' = <<>>
  /\ outcome' = "ok"
  /\ result' = PyNone
  /\ nodes' = NoNodes
  /\ UNCHANGED server

\* client.ping(): a bare GET of base_url; any failure is swallowed.
Ping(c) ==
  LET request == Request(c, "", EmptyDict)
  IN Return("ping", c, <<>>, EmptyDict, <<request>>, "ok",
            IF TransportUp THEN PyStr("latency") ELSE PyNone, NoNodes)

(***************************************************************************)
(* _BaseRESTClient                                                         *)
(***************************************************************************)
StationResourceUrl(resource_name) ==
  "/xml/" \o "seismology" \o "/" \o "station" \o "/" \o resource_name

\* client.station.getResource(resource_name, **kwargs): the caller's
\* keywords go to _fetch as they are.
getResource(c, resource_name, kwargs) ==
  \E order \in Orders(kwargs) :
    LET request ==
          FetchRequest(c, StationResourceUrl(resource_name), kwargs, order)
    IN IF TransportUp
       THEN Return("getResource", c, <<PyStr(resource_name)>>, kwargs,
                   <<request>>, "ok", StationControlHeader, NoNodes)
       ELSE Return("getResource", c, <<PyStr(resource_name)>>, kwargs,
                   <<request>>, "URLError", PyNone, NoNodes)

(***************************************************************************)
(* Positional arguments: "for i in range(len(args)): kwargs[map[i]] =      *)
(* args[i]".                                                               *)
(***************************************************************************)
\* A seeded fault: the name table read from its far end.
MergeArgsReversed(map, args, kwargs) ==
  [k \in DOMAIN kwargs \cup {map[Len(map) + 1 - i] : i \in DOMAIN args} |->
     IF \E i \in DOMAIN args : map[Len(map) + 1 - i] = k
     THEN args[CHOOSE i \in DOMAIN args : map[Len(map) + 1 - i] = k]
     ELSE kwargs[k]]

\* kwargs after the loop (the table's names are distinct); the caller has
\* checked Len(args) <= Len(map), beyond which map[i] is an IndexError.
MergeArgs(map, args, kwargs) ==
  [k \in DOMAIN kwargs \cup {map[i] : i \in DOMAIN args} |->
     IF \E i \in DOMAIN args : map[i] = k
     THEN args[CHOOSE i \in DOMAIN args : map[i] = k]
     ELSE kwargs[k]]

\* A listing mapper: merge the positional arguments, fetch, objectify and
\* return one dictionary per row.
ListCall(op, url, map, c, args, kwargs) ==
  IF Len(args) > Len(map)
  THEN Return(op, c, args, kwargs, <<>>, "IndexError", PyNone, NoNodes)
  ELSE LET merged == MergeArgs(map, args, kwargs)
       IN \E order \in Orders(merged) :
            LET request == FetchRequest(c, url, merged, order)
            IN IF TransportUp
               THEN Return(op, c, args, kwargs, <<request>>, "ok", ListRows,
                           NoNodes)
               ELSE Return(op, c, args, kwargs, <<request>>, "URLError",
                           PyNone, NoNodes)

(***************************************************************************)
(* _WaveformMapperClient.getLatency, _StationMapperClient.getList,         *)
(* _EventMapperClient.getList                                              *)
(***************************************************************************)
LatencyMap == <<"network_id", "station_id", "location_id", "channel_id">>

getLatency(c, args, kwargs) ==
  ListCall("getLatency", "/seismology/waveform/getLatency", LatencyMap,
           c, args, kwargs)

StationListMap == <<"network_id", "station_id">>

StationGetList(c, args, kwargs) ==
  ListCall("station.getList", "/seismology/station/getList", StationListMap,
           c, args, kwargs)

\* event.getList(*args, **kwargs) hands only kwargs to _objectify.
EventGetList(c, args, kwargs) ==
  \E order \in Orders(kwargs) :
    LET request == FetchRequest(c, "/seismology/event/getList", kwargs, order)
    IN IF TransportUp
       THEN Return("event.getList", c, args, kwargs, <<request>>, "ok",
                   ListRows, NoNodes)
       ELSE Return("event.getList", c, args, kwargs, <<request>>, "URLError",
                   PyNone, NoNodes)

(***************************************************************************)
(* obspy.core as the waveform mapper uses it: the band code table, the     *)
(* UTCDateTime parser, pickled Streams and Stream.trim.  A Stream is the   *)
(* sequence of its traces, a trace the set of its sample instants.         *)
(***************************************************************************)
\* obspy.core.util.BAND_CODE: band code -> nominal sampling rate in Hz.
BAND_CODE ==
  ("E" :> 80) @@ ("H" :> 80) @@ ("S" :> 10) @@ ("B" :> 10) @@
  ("M" :> 1) @@ ("L" :> 1)

\* 2.0 / BAND_CODE[band_code] seconds, in milliseconds.
TwoSamples(band_code) == 2000 \div BAND_CODE[band_code]

\* The instants a caller may name, in milliseconds.
Instants == {1000, 2000, 3000}

\* UTCDateTime(text): the instant a time string names.
ParseTime(text) == CHOOSE ms \in Instants : FormatTime(ms) = text

\* Stream.trim(start, end): every trace cut to [start, end].
Trim(stream, start, end) ==
  [i \in DOMAIN stream |-> {x \in stream[i] : start <= x /\ x <= end}]

EmptyBody == [data |-> "", stream |-> <<>>]

\* pickle.dumps(stream), as the server sends it; never the empty string.
Pickled(stream) == [data |-> "pickle", stream |-> stream]

\* pickle.loads(data)
Loads(body) == body.stream

(***************************************************************************)
(* _WaveformMapperClient.getWaveform                                       *)
(***************************************************************************)
NoData == "No waveform data available"

\* kwargs after "for arg in args[1:]: kwargs[arg] = values[arg]".
WaveformKwargs(network_id, station_id, location_id, channel_id, start_datetime, end_datetime, apply_filter, kwargs) ==
  [k \in DOMAIN kwargs \cup
         {"network_id", "station_id", "location_id", "channel_id",
          "start_datetime", "end_datetime", "apply_filter"} |->
     CASE k = "network_id"     -> network_id
       [] k = "station_id"     -> station_id
       [] k = "location_id"    -> location_id
       [] k = "channel_id"     -> channel_id
       [] k = "start_datetime" -> start_datetime
       [] k = "end_datetime"   -> end_datetime
       [] k = "apply_filter"   -> apply_filter
       [] OTHER                -> kwargs[k]]

\* "if isinstance(x, str): x = UTCDateTime(x)"
AsInstant(x) == IF x.t = "str" THEN ParseTime(x.s) ELSE x.n

\* A seeded fault: the span widened by one sample, not two.
PaddedSpanOneSample(start, end, band_code) ==
  [start_datetime |-> PyTime(start - 1000 \div BAND_CODE[band_code]),
   end_datetime   |-> PyTime(end + 1000 \div BAND_CODE[band_code])]

\* The span getWaveform asks the server for.
PaddedSpan(start, end, band_code) ==
  [start_datetime |-> PyTime(start - TwoSamples(band_code)),
   end_datetime   |-> PyTime(end + TwoSamples(band_code))]

\* A seeded fault: the stream trimmed to the span that was fetched.
TrimmedToFetched(stream, start, end, band_code) ==
  Trim(stream, start - TwoSamples(band_code), end + TwoSamples(band_code))

\* "stream.trim(start, end)" at the end of getWaveform.
TrimmedToRequested(stream, start, end, band_code) == Trim(stream, start, end)

\* A seeded fault: the request goes out before the band code is looked up.
BandLookupAfterFetch(c, kwargs) ==
  <<Request(c, "/seismology/waveform/getWaveform",
            EncodeParams(kwargs, SetToSeq(DOMAIN kwargs)))>>

\* The requests issued before BAND_CODE[band_code] is evaluated.
BeforeBandLookup(c, kwargs) == <<>>

getWaveform(c, network_id, station_id, location_id, channel_id, start_datetime, end_datetime, apply_filter, extra) ==
  LET args == <<network_id, station_id, location_id, channel_id,
                start_datetime, end_datetime, apply_filter>>
      kwargs == WaveformKwargs(network_id, station_id, location_id,
                               channel_id, start_datetime, end_datetime,
                               apply_filter, extra)
      Raise(requests, exc) ==
        Return("getWaveform", c, args, extra, requests, exc, PyNone, NoNodes)
  IN
  IF Len(channel_id.s) = 0 THEN Raise(<<>>, "IndexError")
  ELSE
  LET band_code == Head(channel_id.s)
      start == AsInstant(start_datetime)
      end == AsInstant(end_datetime)
  IN
  IF band_code \notin DOMAIN BAND_CODE
  THEN Raise(BeforeBandLookup(c, kwargs), "KeyError")
  ELSE
  LET span == PaddedSpan(start, end, band_code)
      padded == [kwargs EXCEPT !["start_datetime"] = span.start_datetime,
                               !["end_datetime"] = span.end_datetime]
  IN
  \E order \in Orders(padded) :
    LET request ==
          FetchRequest(c, "/seismology/waveform/getWaveform", padded, order)
        data == server.body
    IN
    IF ~TransportUp THEN Raise(<<request>>, "URLError")
    ELSE IF data.data = "" THEN Raise(<<request>>, NoData)
    ELSE IF Len(Loads(data)) = 0 THEN Raise(<<request>>, NoData)
    ELSE Return("getWaveform", c, args, extra, <<request>>, "ok",
                TrimmedToRequested(Loads(data), start, end, band_code),
                NoNodes)

(***************************************************************************)
(* _WaveformMapperClient.getPreview and getPreviewByIds                    *)
(***************************************************************************)
PreviewMap ==
  <<"network_id", "station_id", "location_id", "channel_id",
    "start_datetime", "end_datetime", "trace_ids">>

\* The tail both preview operations share: fetch, "if not data", unpickle.
PreviewFetch(op, c, args, kwargs, merged) ==
  \E order \in Orders(merged) :
    LET request ==
          FetchRequest(c, "/seismology/waveform/getPreview", merged, order)
        data == server.body
    IN
    IF ~TransportUp
    THEN Return(op, c, args, kwargs, <<request>>, "URLError", PyNone, NoNodes)
    ELSE IF data.data = ""
    THEN Return(op, c, args, kwargs, <<request>>, NoData, PyNone, NoNodes)
    ELSE Return(op, c, args, kwargs, <<request>>, "ok", Loads(data), NoNodes)

getPreview(c, args, kwargs) ==
  IF Len(args) > Len(PreviewMap)
  THEN Return("getPreview", c, args, kwargs, <<>>, "IndexError", PyNone,
              NoNodes)
  ELSE PreviewFetch("getPreview", c, args, kwargs,
                    MergeArgs(PreviewMap, args, kwargs))

PreviewByIdsMap == <<"trace_ids", "start_datetime", "end_datetime">>

\* "if 'trace_ids' in kwargs: if isinstance(kwargs['trace_ids'], list):
\*  kwargs['trace_ids'] = ','.join(kwargs['trace_ids'])"
JoinTraceIds(kwargs) ==
  IF "trace_ids" \in DOMAIN kwargs /\ kwargs["trace_ids"].t = "list"
  THEN [kwargs EXCEPT !["trace_ids"] = PyStr(JoinComma(kwargs["trace_ids"].e))]
  ELSE kwargs

\* ','.join raises TypeError on an element that is not a string.
JoinFails(kwargs) ==
  /\ "trace_ids" \in DOMAIN kwargs
  /\ kwargs["trace_ids"].t = "list"
  /\ \E i \in DOMAIN kwargs["trace_ids"].e : kwargs["trace_ids"].e[i].t # "str"

getPreviewByIds(c, args, kwargs) ==
  IF Len(args) > Len(PreviewByIdsMap)
  THEN Return("getPreviewByIds", c, args, kwargs, <<>>, "IndexError", PyNone,
              NoNodes)
  ELSE LET merged == MergeArgs(PreviewByIdsMap, args, kwargs)
       IN IF JoinFails(merged)
          THEN Return("getPreviewByIds", c, args, kwargs, <<>>, "TypeError",
                      PyNone, NoNodes)
          ELSE PreviewFetch("getPreviewByIds", c, args, kwargs,
                            JoinTraceIds(merged))

(***************************************************************************)
(* The station document: the children of station_control_header.           *)
(***************************************************************************)
ChannelIdentifier(channel, location) ==
  [tag |-> "channel_identifier",
   channel_identifier |-> channel, location_identifier |-> location,
   stage_sequence_number |-> "", sensitivity_gain |-> 0,
   real_pole |-> <<>>, imaginary_pole |-> <<>>,
   real_zero |-> <<>>, imaginary_zero |-> <<>>,
   A0_normalization_factor |-> 0]

PolesAndZeros(real_pole, imaginary_pole, real_zero, imaginary_zero, a0) ==
  [tag |-> "response_poles_and_zeros",
   channel_identifier |-> "", location_identifier |-> "",
   stage_sequence_number |-> "", sensitivity_gain |-> 0,
   real_pole |-> real_pole, imaginary_pole |-> imaginary_pole,
   real_zero |-> real_zero, imaginary_zero |-> imaginary_zero,
   A0_normalization_factor |-> a0]

SensitivityGain(stage, gain) ==
  [tag |-> "channel_sensitivity_gain",
   channel_identifier |-> "", location_identifier |-> "",
   stage_sequence_number |-> stage, sensitivity_gain |-> gain,
   real_pole |-> <<>>, imaginary_pole |-> <<>>,
   real_zero |-> <<>>, imaginary_zero |-> <<>>,
   A0_normalization_factor |-> 0]

\* A set of positions as the list, in document order, XPath and objectify
\* return.
RECURSIVE InDocumentOrder(_)
InDocumentOrder(S) ==
  IF S = {} THEN <<>>
  ELSE LET first == CHOOSE x \in S : \A y \in S : x <= y
       IN <<first>> \o InDocumentOrder(S \ {first})

\* base_node.<tag>: the children with that tag, as objectify indexes them.
Children(base_node, tag) ==
  InDocumentOrder({i \in DOMAIN base_node : base_node[i].tag = tag})

\* channel_identifier[channel_identifier='..' and location_identifier='..']
MatchingChannels(base_node, channel_id, location_id) ==
  {i \in DOMAIN base_node :
     /\ base_node[i].tag = "channel_identifier"
     /\ base_node[i].channel_identifier = channel_id
     /\ base_node[i].location_identifier = location_id}

\* A seeded fault: the sibling axis taken in both directions.
FollowingSiblingAnySide(base_node, context, tag) ==
  InDocumentOrder({j \in DOMAIN base_node :
                     /\ \E i \in context : i # j
                     /\ base_node[j].tag = tag})

\* <context>/following-sibling::<tag>
FollowingSibling(base_node, context, tag) ==
  InDocumentOrder({j \in DOMAIN base_node :
                     /\ \E i \in context : i < j
                     /\ base_node[j].tag = tag})

\* <context>/following-sibling::<tag>[stage_sequence_number='<stage>']
FollowingSiblingStage(base_node, context, tag, stage) ==
  InDocumentOrder({j \in DOMAIN base_node :
                     /\ \E i \in context : i < j
                     /\ base_node[j].tag = tag
                     /\ base_node[j].stage_sequence_number = stage})

(***************************************************************************)
(* _StationMapperClient.getPAZ                                             *)
(***************************************************************************)
\* "t in text" for a one-character t
Contains(text, t) == \E i \in 1..Len(text) : SubSeq(text, i, i) = t

\* "for t in ['*', '?']: if t in x: x = ''"
NoWildcards(x) ==
  LET star == IF Contains(x, "*") THEN "" ELSE x
  IN IF Contains(star, "?") THEN "" ELSE star

\* Complex numbers, as Python adds and multiplies them.
Complex(re, im) == [re |-> re, im |-> im]
Plus(a, b) == Complex(a.re + b.re, a.im + b.im)
Times(a, b) == Complex(a.re * b.re - a.im * b.im, a.re * b.im + a.im * b.re)
OneJ == Complex(0, 1)

\* zip(a, b): as long as the shorter of the two.
Zip(a, b) ==
  [i \in 1..(IF Len(a) <= Len(b) THEN Len(a) ELSE Len(b)) |-> <<a[i], b[i]>>]

\* A seeded fault: the imaginary parts paired from the far end.
CombineCrossed(real, imaginary) ==
  [i \in 1..(IF Len(real) <= Len(imaginary) THEN Len(real) ELSE Len(imaginary))
     |-> Complex(real[i], imaginary[Len(imaginary) + 1 - i])]

\* "[p[0] + p[1] * 1j for p in zip(real, imaginary)]"
Combine(real, imaginary) ==
  LET pairs == Zip(real, imaginary)
  IN [i \in DOMAIN pairs |->
        Plus(Complex(pairs[i][1], 0), Times(Complex(pairs[i][2], 0), OneJ))]

\* A seeded fault: the unfiltered branch taking the first gain node for
\* the sensitivity, as it does for the seismometer gain.
FirstNodesAllFirst(base_node) ==
  [paz_node |-> Children(base_node, "response_poles_and_zeros")[1],
   sensitivity_node |-> Children(base_node, "channel_sensitivity_gain")[1],
   seismometer_gain_node |-> Children(base_node, "channel_sensitivity_gain")[1]]

\* "just take first existing nodes": the branch without a filter; both
\* tags have a child.
FirstNodes(base_node) ==
  LET paz == Children(base_node, "response_poles_and_zeros")
      gain == Children(base_node, "channel_sensitivity_gain")
  IN [paz_node |-> paz[1],
      sensitivity_node |-> gain[Len(gain)],
      seismometer_gain_node |-> gain[1]]

\* A seeded fault: a station list without rows goes on to the resource.
StationMissingNever(station_list) == FALSE

\* "if not station_list"
StationMissing(station_list) == Len(station_list) = 0

\* A seeded fault: the stage 1 node looked up only when the seismometer
\* gain is asked for.
SeismometerGainNodesWhenAsked(base_node, context, seismometer_gain) ==
  IF Truthy(seismometer_gain)
  THEN FollowingSiblingStage(base_node, context,
                             "channel_sensitivity_gain", "1")
  ELSE <<0>>

\* "fetch seismometer gain following channel_sensitivity_node with
\* stage_sequence_number == 1": looked up whatever seismometer_gain is.
SeismometerGainNodes(base_node, context, seismometer_gain) ==
  FollowingSiblingStage(base_node, context, "channel_sensitivity_gain", "1")

getPAZ(c, network_id, station_id, datetime, location_id, channel_id, seismometer_gain) ==
  LET args == <<network_id, station_id, datetime, location_id, channel_id,
                seismometer_gain>>
      End(requests, out, res, bound) ==
        Return("getPAZ", c, args, EmptyDict, requests, out, res, bound)
      list_kwargs == [k \in {"network_id", "station_id", "datetime"} |->
                        CASE k = "network_id" -> network_id
                          [] k = "station_id" -> station_id
                          [] OTHER            -> datetime]
  IN
  \E order \in Orders(list_kwargs) :
  LET list_request ==
        FetchRequest(c, "/seismology/station/getList", list_kwargs, order)
      station_list == ListRows
  IN
  IF ~TransportUp THEN End(<<list_request>>, "URLError", PyNone, NoNodes)
  ELSE IF StationMissing(station_list)
  THEN End(<<list_request>>, "ok", EmptyDict, NoNodes)
  ELSE
  IF Len(station_list) = 0
  THEN End(<<list_request>>, "IndexError", PyNone, NoNodes)
  ELSE
  LET channel == NoWildcards(channel_id.s)
      location == NoWildcards(location_id.s)
      xml_doc == station_list[1]
      requests ==
        <<list_request,
          Request(c, StationResourceUrl(xml_doc.resource_name), EmptyDict)>>
      base_node == StationControlHeader
      Build(bound) ==
        LET paz_node == base_node[bound.paz_node]
            sensitivity_node == base_node[bound.sensitivity_node]
            seismometer_gain_node == base_node[bound.seismometer_gain_node]
            paz == [poles |-> Combine(paz_node.real_pole,
                                      paz_node.imaginary_pole),
                    zeros |-> Combine(paz_node.real_zero,
                                      paz_node.imaginary_zero),
                    gain |-> paz_node.A0_normalization_factor,
                    sensitivity |-> sensitivity_node.sensitivity_gain]
        IN
        IF \/ Len(paz_node.real_pole) = 0 \/ Len(paz_node.imaginary_pole) = 0
           \/ Len(paz_node.real_zero) = 0 \/ Len(paz_node.imaginary_zero) = 0
        THEN End(requests, "AttributeError", PyNone, bound)
        ELSE IF Truthy(seismometer_gain)
        THEN End(requests, "ok",
                 [poles |-> paz.poles, zeros |-> paz.zeros,
                  gain |-> paz.gain, sensitivity |-> paz.sensitivity,
                  seismometer_gain |-> seismometer_gain_node.sensitivity_gain],
                 bound)
        ELSE End(requests, "ok", paz, bound)
  IN
  IF channel # "" \/ location # ""
  THEN
    LET context == MatchingChannels(base_node, channel, location)
        paz == FollowingSibling(base_node, context, "response_poles_and_zeros")
        stage0 == FollowingSiblingStage(base_node, context,
                                        "channel_sensitivity_gain", "0")
        stage1 == SeismometerGainNodes(base_node, context, seismometer_gain)
    IN
    IF Len(paz) = 0 THEN End(requests, "IndexError", PyNone, NoNodes)
    ELSE IF Len(stage0) = 0
    THEN End(requests, "IndexError", PyNone,
             [NoNodes EXCEPT !.paz_node = paz[1]])
    ELSE IF Len(stage1) = 0
    THEN End(requests, "IndexError", PyNone,
             [NoNodes EXCEPT !.paz_node = paz[1],
                             !.sensitivity_node = stage0[1]])
    ELSE Build([paz_node |-> paz[1], sensitivity_node |-> stage0[1],
                seismometer_gain_node |-> stage1[1]])
  ELSE
    IF Len(Children(base_node, "response_poles_and_zeros")) = 0
    THEN End(requests, "AttributeError", PyNone, NoNodes)
    ELSE IF Len(Children(base_node, "channel_sensitivity_gain")) = 0
    THEN End(requests, "AttributeError", PyNone,
             [NoNodes EXCEPT !.paz_node =
                Children(base_node, "response_poles_and_zeros")[1]])
    ELSE Build(FirstNodes(base_node))

(***************************************************************************)
(* The inputs the model draws from.                                        *)
(***************************************************************************)
SeqsUpTo(S, n) == UNION {[1..k -> S] : k \in 0..n}

Scalars ==
  {PyNone, PyBool(FALSE), PyBool(TRUE), PyInt(0), PyInt(7), PyStr(""),
   PyStr("ab")}

Elements == {PyInt(0), PyStr("a")}

\* Every value a keyword may carry: the scalars, and the tuples and lists
\* of up to MaxSeqLen elements.
Values ==
  Scalars \cup {PyTuple(q) : q \in SeqsUpTo(Elements, MaxSeqLen)}
          \cup {PyList(q) : q \in SeqsUpTo(Elements, MaxSeqLen)}

\* Keyword names, among them names the range expansion itself produces.
Keys == {"k", "min_k", "max_k"}

\* The keyword mappings of up to MaxKeys keys.
Mappings ==
  UNION {[K -> Values] : K \in {S \in SUBSET Keys : Cardinality(S) <= MaxKeys}}

BaseUrls == {DefaultBaseUrl, "http://localhost:8080"}
Logins == {[user |-> DefaultUser, password |-> DefaultPassword],
           [user |-> "guest", password |-> "secret"]}
Timeouts == {DefaultTimeout}

\* A server that lists a station and holds its document.
Row(resource_name) == [resource_name |-> resource_name]

PazA == PolesAndZeros(<<1, 2>>, <<3, 4>>, <<0>>, <<0>>, 5)

NodeKinds ==
  {ChannelIdentifier("EHZ", ""), ChannelIdentifier("EHZ", "01"),
   ChannelIdentifier("EHN", ""), PazA,
   SensitivityGain("0", 100), SensitivityGain("1", 400)}

\* Documents of every shape, up to MaxNodes nodes.
ShapeDocs == SeqsUpTo(NodeKinds, MaxNodes)

\* Documents whose one PAZ node lists every choice of up to MaxParts parts.
PartsDocs ==
  {<<PolesAndZeros(rp, ip, rz, iz, 5), SensitivityGain("1", 400),
     SensitivityGain("0", 100)>> :
     rp \in SeqsUpTo({1, 2}, MaxParts), ip \in SeqsUpTo({3, 4}, MaxParts),
     rz \in SeqsUpTo({0}, MaxParts), iz \in SeqsUpTo({0}, MaxParts)}

SmallDoc == <<ChannelIdentifier("EHZ", ""), PazA, SensitivityGain("1", 400),
              SensitivityGain("0", 100)>>

Samples == {900, 1000, 2500, 3100}

\* The bodies the waveform and preview mappers may answer with.
Bodies ==
  {EmptyBody} \cup
  {Pickled(st) : st \in SeqsUpTo(SUBSET Samples, MaxTraces)}

QuietServer ==
  [up |-> TRUE, rows |-> <<Row("r1")>>, doc |-> SmallDoc,
   body |-> Pickled(<<{1000, 2500}>>)]

\* What a caller passes by position, and by name, to a mapper.
ArgValues ==
  {PyStr("BW"), PyStr(""), PyList(<<PyStr("a"), PyStr("b")>>),
   PyTuple(<<PyStr("a"), PyStr("b")>>), PyList(<<PyStr("a")>>),
   PyTuple(<<PyStr("a")>>)}

ArgKwargs ==
  {EmptyDict, "network_id" :> PyStr("GR"),
   "trace_ids" :> PyList(<<PyStr("x"), PyStr("y")>>), "limit" :> PyInt(7)}

ChannelCodes == {PyStr("EHZ"), PyStr("BHZ"), PyStr("XHZ"), PyStr("")}
StartTimes == {PyTime(1000), PyStr(FormatTime(1000)), PyTime(2000)}
EndTimes == {PyTime(2000), PyStr(FormatTime(3000))}

LocationFilters == {PyStr(""), PyStr("01"), PyStr("0?")}
ChannelFilters == {PyStr(""), PyStr("EHZ"), PyStr("EH*")}

(***************************************************************************)
(* The specifications.                                                     *)
(***************************************************************************)
NoCall == [op |-> "none", client |-> 0, args |-> <<>>, kwargs |-> EmptyDict]

\* Nothing has been called yet.
Fresh == call = NoCall

Idle ==
  /\ call = NoCall
  /\ sent = <<>>
  /\ outcome = "none"
  /\ result = PyNone
  /\ nodes = NoNodes

\* A process that has constructed nothing yet.
Init ==
  /\ clients = <<>>
  /\ opener = NoOpener
  /\ server \in {QuietServer, [QuietServer EXCEPT !.up = FALSE]}
  /\ Idle

\* A process after "client = Client()", talking to the given server.
InitClient(servers) ==
  /\ clients = <<DefaultClient>>
  /\ opener = OpenerOf(DefaultClient)
  /\ server \in servers
  /\ Idle

Construct ==
  \E base_url \in BaseUrls, login \in Logins, timeout \in Timeouts :
    NewClient(base_url, login.user, login.password, timeout)

\* Clients are constructed and used in any order.
Next ==
  \/ Construct
  \/ \E c \in DOMAIN clients : Ping(c)
  \/ \E c \in DOMAIN clients : getResource(c, "r1", EmptyDict)
  \/ \E c \in DOMAIN clients : getLatency(c, <<PyStr("BW")>>, EmptyDict)
  \/ \E c \in DOMAIN clients :
       getWaveform(c, PyStr("BW"), PyStr("MANZ"), PyStr(""), PyStr("EHZ"),
                   PyTime(1000), PyTime(2000), PyBool(FALSE), EmptyDict)
  \/ \E c \in DOMAIN clients : getPreview(c, <<PyStr("BW")>>, EmptyDict)
  \/ \E c \in DOMAIN clients :
       getPreviewByIds(c, <<PyList(<<PyStr("a")>>)>>, EmptyDict)
  \/ \E c \in DOMAIN clients : StationGetList(c, <<PyStr("BW")>>, EmptyDict)
  \/ \E c \in DOMAIN clients : EventGetList(c, <<>>, EmptyDict)
  \/ \E c \in DOMAIN clients :
       getPAZ(c, PyStr("BW"), PyStr("MANZ"), PyStr("20090707"), PyStr(""),
              PyStr("EHZ"), PyBool(FALSE))

Spec == Init /\ [][Next]_vars

\* One _fetch, over every keyword mapping.
InitFetch == InitClient({QuietServer})

NextFetch ==
  Fresh /\ \E kwargs \in Mappings : getResource(1, "r1", kwargs)

SpecFetch == InitFetch /\ [][NextFetch]_vars

\* One waveform or preview call, over every body the server may send.
InitWaveform == InitClient({[QuietServer EXCEPT !.body = b] : b \in Bodies})

NextWaveform ==
  /\ Fresh
  /\ \/ \E channel_id \in ChannelCodes, start \in StartTimes,
           end \in EndTimes, apply_filter \in BOOLEAN :
          getWaveform(1, PyStr("BW"), PyStr("MANZ"), PyStr(""), channel_id,
                      start, end, PyBool(apply_filter), EmptyDict)
     \/ \E args \in {<<>>, <<PyStr("BW"), PyStr("MANZ")>>} :
          getPreview(1, args, EmptyDict)
     \/ \E args \in {<<PyStr("BW.MANZ..EHE")>>,
                     <<PyList(<<PyStr("a"), PyStr("b")>>)>>} :
          getPreviewByIds(1, args, EmptyDict)

SpecWaveform == InitWaveform /\ [][NextWaveform]_vars

\* One getPAZ, over every station document.
InitStation ==
  InitClient({[QuietServer EXCEPT !.rows = <<>>, !.doc = <<>>]} \cup
             {[QuietServer EXCEPT !.rows = <<Row("r1"), Row("r2")>>,
                                  !.doc = d] : d \in ShapeDocs \cup PartsDocs})

NextStation ==
  /\ Fresh
  /\ \E location_id \in LocationFilters, channel_id \in ChannelFilters,
        seismometer_gain \in BOOLEAN :
       getPAZ(1, PyStr("BW"), PyStr("MANZ"), PyStr("20090707"), location_id,
              channel_id, PyBool(seismometer_gain))

SpecStation == InitStation /\ [][NextStation]_vars

\* One listing or preview call, over every way of passing its filters.
InitArgs == InitClient({QuietServer})

NextArgs ==
  /\ Fresh
  /\ \E args \in SeqsUpTo(ArgValues, MaxArgs), kwargs \in ArgKwargs :
       \/ getLatency(1, args, kwargs)
       \/ getPreview(1, args, kwargs)
       \/ getPreviewByIds(1, args, kwargs)
       \/ StationGetList(1, args, kwargs)
       \/ EventGetList(1, args, kwargs)

SpecArgs == InitArgs /\ [][NextArgs]_vars
(***************************************************************************)
(* Client._fetch: the encoded parameters.                                  *)
(***************************************************************************)
\* The parameters a request carried.
ParamsSent == sent[1].params

IsRange(v) == (v.t = "tuple" \/ v.t = "list") /\ Len(v.e) = 2

\* The parameter names the claim lets a mapping produce.
ExpectedNames(kwargs) ==
  UNION {IF ~Truthy(kwargs[k]) THEN {}
         ELSE IF IsRange(kwargs[k]) THEN {"min_" \o k, "max_" \o k}
         ELSE {k} : k \in DOMAIN kwargs}

\* What the claim says of the parameters encoded for a mapping: nothing
\* for a falsy value, min_k and max_k (and no k) for a two-element tuple or
\* list, k = str(value) for every other truthy value.
EncodedAsClaimed(kwargs, params) ==
  /\ DOMAIN params = ExpectedNames(kwargs)
  /\ \A k \in DOMAIN kwargs :
       LET v == kwargs[k]
       IN /\ (Truthy(v) /\ IsRange(v)) =>
               /\ "min_" \o k \in DOMAIN params
               /\ "max_" \o k \in DOMAIN params
               /\ params["min_" \o k] = Str(v.e[1])
               /\ params["max_" \o k] = Str(v.e[2])
               /\ (k \in DOMAIN params => k \in ExpectedNames(
                      [j \in DOMAIN kwargs \ {k} |-> kwargs[j]]))
          /\ (Truthy(v) /\ ~IsRange(v)) =>
               /\ k \in DOMAIN params
               /\ params[k] = Str(v)

\* A two-element value under k together with a truthy value, itself no
\* range, under min_k or max_k: both name the same parameter.
NameClash(kwargs) ==
  \E k, j \in DOMAIN kwargs :
    /\ Truthy(kwargs[k]) /\ IsRange(kwargs[k])
    /\ Truthy(kwargs[j]) /\ ~IsRange(kwargs[j])
    /\ j \in {"min_" \o k, "max_" \o k}

\* C1 as stated: for every mapping of keyword arguments, a falsy value
\* yields no parameter, a tuple or list of two elements under k yields
\* exactly min_k = str(lo) and max_k = str(hi), and every other truthy
\* value yields exactly k = str(value).
C1_EveryMappingEncoded ==
  (call.op = "getResource" /\ Len(sent) = 1) =>
    EncodedAsClaimed(call.kwargs, ParamsSent)

\* C1 amended: the same, for every mapping in which no truthy non-range
\* value sits under the name min_k or max_k of a two-element value's key k.
C1_EncodedUnlessNameClash ==
  (call.op = "getResource" /\ Len(sent) = 1 /\ ~NameClash(call.kwargs)) =>
    EncodedAsClaimed(call.kwargs, ParamsSent)

\* A mapping with a range, a falsy value and a two-character string went
\* out as min_k, max_k and the string alone.
C1_Witness ==
  /\ call.op = "getResource"
  /\ DOMAIN call.kwargs = {"k", "max_k"}
  /\ call.kwargs["k"] = PyList(<<PyInt(0), PyStr("a")>>)
  /\ call.kwargs["max_k"] = PyStr("")
  /\ ParamsSent = ("min_k" :> "0") @@ ("max_k" :> "a")

\* A two-character string is sent as it is, not split into a range.
C1_WitnessString ==
  /\ call.op = "getResource"
  /\ DOMAIN call.kwargs = {"k"}
  /\ call.kwargs["k"] = PyStr("ab")
  /\ ParamsSent = ("k" :> "ab")

(***************************************************************************)
(* The waveform mapper: no data, padding and trimming, the band code.      *)
(***************************************************************************)
\* C2: for getWaveform, getPreview and getPreviewByIds, an empty body or a
\* body that unpickles to a Stream without traces always ends in "No
\* waveform data available"; none of them returns a Stream without traces.
C2_NoDataNeverReturned ==
  (/\ call.op \in {"getWaveform", "getPreview", "getPreviewByIds"}
   /\ Len(sent) = 1
   /\ server.up) =>
    /\ (server.body.data = "" \/ Len(server.body.stream) = 0) =>
          outcome = NoData
    /\ outcome = "ok" => Len(result) > 0

\* The instant a caller's start or end argument names.
InstantOf(x) == IF x.t = "str" THEN ParseTime(x.s) ELSE x.n

\* C6: a getWaveform whose band code b is in the table asks the server for
\* [start - 2/rate(b), end + 2/rate(b)] and returns the fetched Stream
\* trimmed to the [start, end] the caller gave, as instants or as strings.
C6_PaddedFetchTrimmedResult ==
  (call.op = "getWaveform" /\ Len(sent) = 1) =>
    LET rate == BAND_CODE[Head(call.args[4].s)]
        start == InstantOf(call.args[5])
        end == InstantOf(call.args[6])
    IN /\ ParamsSent["start_datetime"] = FormatTime(start - 2000 \div rate)
       /\ ParamsSent["end_datetime"] = FormatTime(end + 2000 \div rate)
       /\ outcome = "ok" =>
            /\ DOMAIN result = DOMAIN server.body.stream
            /\ \A i \in DOMAIN result :
                 result[i] = {x \in server.body.stream[i] :
                                start <= x /\ x <= end}

\* A 10 Hz channel asked for by time strings: 200 ms were added on each
\* side, and the samples in the padding were trimmed away again.
C6_Witness ==
  /\ call.op = "getWaveform"
  /\ outcome = "ok"
  /\ call.args[4] = PyStr("BHZ")
  /\ call.args[5] = PyStr("T1000")
  /\ call.args[6] = PyStr("T3000")
  /\ ParamsSent["start_datetime"] = "T800"
  /\ ParamsSent["end_datetime"] = "T3200"
  /\ server.body.stream = <<{900, 1000, 2500, 3100}>>
  /\ result = <<{1000, 2500}>>

\* C10: a getWaveform whose channel code starts with a character that is
\* no key of the band code table ends in a lookup error and has sent no
\* request.
C10_UnknownBandSendsNothing ==
  (/\ call.op = "getWaveform"
   /\ call.args[4].s # ""
   /\ Head(call.args[4].s) \notin {"E", "H", "S", "B", "M", "L"}) =>
    /\ outcome = "KeyError"
    /\ Len(sent) = 0

\* Such a call was made, against a server that had data to send.
C10_Witness ==
  /\ call.op = "getWaveform"
  /\ call.args[4] = PyStr("XHZ")
  /\ outcome = "KeyError"
  /\ sent = <<>>
  /\ server.body.data # ""

(***************************************************************************)
(* The client's credentials.                                               *)
(***************************************************************************)
\* C3: every request issued through a client is authenticated with the
\* user and password given to that client's constructor, whatever other
\* clients were constructed before or after it.
C3_OwnCredentials ==
  \A i \in DOMAIN sent :
    sent[i].auth = [user |-> clients[sent[i].client].user,
                    password |-> clients[sent[i].client].password]

(***************************************************************************)
(* Positional filters.                                                     *)
(***************************************************************************)
\* The names the documentation of each operation gives its positions.
DocumentedNames(op) ==
  CASE op = "getLatency" ->
         <<"network_id", "station_id", "location_id", "channel_id">>
    [] op = "getPreview" ->
         <<"network_id", "station_id", "location_id", "channel_id",
           "start_datetime", "end_datetime", "trace_ids">>
    [] op = "getPreviewByIds" ->
         <<"trace_ids", "start_datetime", "end_datetime">>
    [] op = "station.getList" -> <<"network_id", "station_id">>
    [] OTHER -> <<>>

\* The same call with every positional filter passed by its name.
ByName(op, args, kwargs) ==
  LET names == DocumentedNames(op)
  IN [k \in DOMAIN kwargs \cup {names[i] : i \in DOMAIN args} |->
        IF \E i \in DOMAIN args : names[i] = k
        THEN args[CHOOSE i \in DOMAIN args : names[i] = k]
        ELSE kwargs[k]]

\* What a call that passes kwargs alone sends.
SentByName(op, kwargs) ==
  LET final == IF op = "getPreviewByIds" THEN JoinTraceIds(kwargs) ELSE kwargs
  IN {EncodeParams(final, order) : order \in Perms(DOMAIN final)}

\* The four operations with a name table send what the by-name call sends.
TablePositionsKept ==
  (/\ call.op \in {"getLatency", "getPreview", "getPreviewByIds",
                   "station.getList"}
   /\ Len(sent) = 1) =>
    ParamsSent \in SentByName(call.op, ByName(call.op, call.args, call.kwargs))

\* event.getList sends something for a truthy positional filter.
EventPositionsKept ==
  (/\ call.op = "event.getList"
   /\ Len(sent) = 1
   /\ \E i \in DOMAIN call.args : Truthy(call.args[i])) =>
    ParamsSent \notin SentByName(call.op, call.kwargs)

\* C9: in getLatency, getPreview, getPreviewByIds, station getList and
\* event getList, a filter passed by position reaches the query under the
\* name of its position, as if passed by that name; none is dropped.
C9_PositionalFiltersReachQuery == TablePositionsKept /\ EventPositionsKept

(***************************************************************************)
(* getPAZ: the empty station list, node selection, reconstruction.         *)
(***************************************************************************)
\* getPAZ's arguments, as the caller gave them.
LocationArg == call.args[4].s
ChannelArg == call.args[5].s

\* A filter that is empty or holds a wildcard character.
Unset(x) == x = "" \/ Contains(x, "*") \/ Contains(x, "?")

\* The filter after wildcard normalization.
Effective(x) == IF Unset(x) THEN "" ELSE x

\* The channel_identifier nodes equal to both filters.
Matches ==
  {i \in DOMAIN server.doc :
     /\ server.doc[i].tag = "channel_identifier"
     /\ server.doc[i].channel_identifier = Effective(ChannelArg)
     /\ server.doc[i].location_identifier = Effective(LocationArg)}

\* Node j carries the tag and, where one is asked for, the stage.
IsKind(j, tag, stage) ==
  /\ server.doc[j].tag = tag
  /\ stage # "" => server.doc[j].stage_sequence_number = stage

\* Node p is the first node of its kind that follows a matching
\* channel_identifier.
FirstFollowing(p, tag, stage) ==
  /\ p \in DOMAIN server.doc
  /\ IsKind(p, tag, stage)
  /\ \E i \in Matches : i < p
  /\ \A j \in DOMAIN server.doc :
       (j < p /\ IsKind(j, tag, stage)) => ~(\E i \in Matches : i < j)

\* C7: when the station list has no rows getPAZ returns {} without an
\* error, and the list request is the only request it sends.
C7_NoStationEmptyResult ==
  (call.op = "getPAZ" /\ server.up /\ server.rows = <<>>) =>
    /\ outcome = "ok"
    /\ DOMAIN result = {}
    /\ Len(sent) = 1
    /\ sent[1].url = "/seismology/station/getList"

\* A getPAZ with a channel filter against a server that lists no station.
C7_Witness ==
  /\ call.op = "getPAZ"
  /\ server.rows = <<>>
  /\ call.args[5] = PyStr("EHZ")
  /\ outcome = "ok"
  /\ Len(sent) = 1

\* C4: with a channel or location filter left after normalization, the
\* PAZ node is the first response_poles_and_zeros that follows a
\* channel_identifier equal to both filters, the sensitivity node the first
\* following channel_sensitivity_gain of stage 0, the seismometer gain node
\* the first of stage 1; a match that no response_poles_and_zeros follows
\* raises a lookup error, it does not return an empty result.
C4_FilteredSelection ==
  (/\ call.op = "getPAZ"
   /\ Len(sent) = 2
   /\ (Effective(ChannelArg) # "" \/ Effective(LocationArg) # "")) =>
    /\ nodes.paz_node # 0 =>
         FirstFollowing(nodes.paz_node, "response_poles_and_zeros", "")
    /\ nodes.sensitivity_node # 0 =>
         FirstFollowing(nodes.sensitivity_node, "channel_sensitivity_gain", "0")
    /\ nodes.seismometer_gain_node # 0 =>
         FirstFollowing(nodes.seismometer_gain_node,
                        "channel_sensitivity_gain", "1")
    /\ outcome = "ok" =>
         /\ nodes.paz_node # 0
         /\ nodes.sensitivity_node # 0
         /\ nodes.seismometer_gain_node # 0
         /\ result.gain = server.doc[nodes.paz_node].A0_normalization_factor
         /\ result.sensitivity =
              server.doc[nodes.sensitivity_node].sensitivity_gain
    /\ (~\E p \in DOMAIN server.doc :
           FirstFollowing(p, "response_poles_and_zeros", "")) =>
         /\ outcome = "IndexError"
         /\ nodes.paz_node = 0

\* A channel filter (the location filter a wildcard) picked the nodes after
\* the matching channel_identifier.
C4_Witness ==
  /\ call.op = "getPAZ"
  /\ outcome = "ok"
  /\ ChannelArg = "EHZ"
  /\ LocationArg = "0?"
  /\ server.doc = <<ChannelIdentifier("EHZ", ""), SensitivityGain("1", 400),
                    PazA, SensitivityGain("0", 100)>>
  /\ nodes = [paz_node |-> 3, sensitivity_node |-> 4,
              seismometer_gain_node |-> 2]

\* A matching channel_identifier with nothing but an earlier PAZ node.
C4_WitnessLookupFailure ==
  /\ call.op = "getPAZ"
  /\ ChannelArg = "EHZ"
  /\ LocationArg = ""
  /\ server.doc = <<PazA, ChannelIdentifier("EHZ", ""),
                    SensitivityGain("0", 100), SensitivityGain("1", 400)>>
  /\ outcome = "IndexError"

Paired(real, imaginary, out) ==
  /\ Len(out) = (IF Len(real) <= Len(imaginary) THEN Len(real)
                 ELSE Len(imaginary))
  /\ \A i \in DOMAIN out : out[i] = [re |-> real[i], im |-> imaginary[i]]

\* C8: the poles (and the zeros) getPAZ returns are real[i] + imaginary[i]*j
\* of the PAZ node, index by index and in document order.
C8_PairedByPosition ==
  (call.op = "getPAZ" /\ outcome = "ok" /\ Len(sent) = 2) =>
    LET paz_node == server.doc[nodes.paz_node]
    IN /\ Paired(paz_node.real_pole, paz_node.imaginary_pole, result.poles)
       /\ Paired(paz_node.real_zero, paz_node.imaginary_zero, result.zeros)

\* Real parts [1, 2] and imaginary parts [3, 4] came back as [1+3j, 2+4j].
C8_Witness ==
  /\ call.op = "getPAZ"
  /\ outcome = "ok"
  /\ nodes.paz_node # 0
  /\ server.doc[nodes.paz_node].real_pole = <<1, 2>>
  /\ server.doc[nodes.paz_node].imaginary_pole = <<3, 4>>
  /\ result.poles = <<[re |-> 1, im |-> 3], [re |-> 2, im |-> 4]>>


(***************************************************************************)
(* getPreviewByIds: trace identifiers given as a sequence.                 *)
(***************************************************************************)
\* The trace_ids the caller gave, by position or by name.
TraceIdsGiven ==
  ByName("getPreviewByIds", call.args, call.kwargs)["trace_ids"]

\* A getPreviewByIds call that sent its request, with trace_ids a
\* sequence of the given type holding one identifier or more.
IdsGivenAs(type) ==
  /\ call.op = "getPreviewByIds"
  /\ Len(sent) = 1
  /\ "trace_ids" \in DOMAIN ByName("getPreviewByIds", call.args, call.kwargs)
  /\ TraceIdsGiven.t = type
  /\ Len(TraceIdsGiven.e) >= 1
  /\ \A i \in DOMAIN TraceIdsGiven.e : TraceIdsGiven.e[i].t = "str"

\* The request carries the identifiers as the one parameter trace_ids,
\* joined by commas in order, and no range parameter.
SentCommaJoined ==
  /\ "trace_ids" \in DOMAIN ParamsSent
  /\ ParamsSent["trace_ids"] = JoinComma(TraceIdsGiven.e)
  /\ "min_trace_ids" \notin DOMAIN ParamsSent
  /\ "max_trace_ids" \notin DOMAIN ParamsSent

\* Identifiers given as a list are sent comma-joined.
ListIdsJoined == IdsGivenAs("list") => SentCommaJoined

\* Identifiers given as a tuple are sent comma-joined.
TupleIdsJoined == IdsGivenAs("tuple") => SentCommaJoined

\* C11: getPreviewByIds with trace identifiers given as a list or a tuple
\* of one identifier or more sends them as the single parameter trace_ids,
\* joined by commas in order; two identifiers are not sent as
\* min_trace_ids / max_trace_ids.
C11_SequenceIdsCommaJoined == ListIdsJoined /\ TupleIdsJoined


(***************************************************************************)
(* getPAZ: the seismometer gain node of the filter branch.                 *)
(***************************************************************************)
\* A getPAZ that fetched the station document and took the branch with a
\* channel or location filter.
FilterBranch ==
  /\ call.op = "getPAZ"
  /\ Len(sent) = 2
  /\ (Effective(ChannelArg) # "" \/ Effective(LocationArg) # "")

\* The caller's seismometer_gain flag.
GainAsked == Truthy(call.args[6])

\* No channel_sensitivity_gain of stage 1 follows a matching
\* channel_identifier.
NoStageOneSibling ==
  ~\E p \in DOMAIN server.doc :
      FirstFollowing(p, "channel_sensitivity_gain", "1")

\* C12: in the filter branch getPAZ looks up the following
\* channel_sensitivity_gain of stage 1 whatever seismometer_gain is: without
\* such a sibling the call raises a lookup error, also when seismometer_gain
\* is False; the dictionary returned has the key seismometer_gain exactly
\* when seismometer_gain is True.
C12_GainNodeAlwaysLookedUp ==
  FilterBranch =>
    /\ NoStageOneSibling => outcome = "IndexError"
    /\ outcome = "ok" =>
         /\ ("seismometer_gain" \in DOMAIN result) <=> GainAsked
         /\ GainAsked =>
              result.seismometer_gain =
                server.doc[nodes.seismometer_gain_node].sensitivity_gain

\* seismometer_gain False, the PAZ node and the stage 0 node found, no
\* stage 1 node after the matching channel_identifier: a lookup error.
C12_Witness ==
  /\ FilterBranch
  /\ ~GainAsked
  /\ NoStageOneSibling
  /\ nodes.paz_node # 0
  /\ nodes.sensitivity_node # 0
  /\ outcome = "IndexError"

\* seismometer_gain True and all three nodes found: the key is returned.
C12_WitnessKey ==
  /\ FilterBranch
  /\ GainAsked
  /\ outcome = "ok"
  /\ "seismometer_gain" \in DOMAIN result
  /\ result.seismometer_gain = 400

\* seismometer_gain False and all three nodes found: no such key.
C12_WitnessNoKey ==
  /\ FilterBranch
  /\ ~GainAsked
  /\ outcome = "ok"
  /\ "seismometer_gain" \notin DOMAIN result

=============================================================================
